---- MODULE Spec2Model ----
(***************************************************************************)
(* A model of the training loop and validation routine of                  *)
(* archive/trainer_hook.py and of the UNet3Plus model graph of             *)
(* model/u3_effnet/unet3plus.py.                                           *)
(*                                                                         *)
(* Dice values are fixed-point integers in units of 1e-5 (100000 = 1.0).   *)
(* Tensors are represented by their shapes; the values of a tensor are     *)
(* only represented where a claim is about them (the per-sample gate).     *)
(*                                                                         *)
(* SpecTrain is a program that calls train(), SpecValidation one that      *)
(* calls validation() directly, SpecForward one that builds a UNet3Plus    *)
(* and calls forward() once.  The training loader of train() is not empty. *)
(* Of the validation branch of train() only the call of validation() and   *)
(* scheduler.step() are actions: the latter always raises, so that lines   *)
(* 108-143 and the wandb.log of a validation epoch are never executed;     *)
(* UpdateBest, CheckpointPath and ValMetricKeys say what they would do.    *)
(***************************************************************************)
EXTENDS Integers, Sequences, FiniteSets, TLC

(* ---- bounds of the model ---- *)
MaxEpochs == 3
MaxInterval == 3
MaxTrainBatches == 2
MaxValBatches == 2
MaxBatchSize == 2
MaxWorst == 5
MaxStages == 3
MaxAux == 3
MaxClasses == 2
MaxBatch == 2
MaxSize == 8

(* ---- program constants ---- *)
DefaultNumWorst == 4

VARIABLES
    entry,              \* which function the program called: "train" | "validation"
    pc,                 \* position inside train() / validation()
    num_epochs,         \* train() argument
    val_interval,       \* train() argument
    hook,               \* train() argument: "None" or "hook"
    nTrain,             \* len(data_loader) of train()
    valBatchSize,       \* batch_size of the validation data source
    valBatches,         \* the validation data source: sample count of each batch
    num_worst_samples,  \* validation() argument
    epoch,              \* 0-based loop variable of train()
    step,               \* batches of the current epoch already trained
    training,           \* model.training
    best_dice,          \* train() local
    best_model_path,    \* train() local; <<>> is None
    files,              \* checkpoint files under save_dir
    metrics,            \* the metrics record being built for this epoch
    logged,             \* the records passed to wandb.log, in order
    hookCalls,          \* the calls of hook.after_train_epoch, in order
    optSteps,           \* number of optimizer.step() calls
    valCalls,           \* the epoch argument of each validation() call
    valDices,           \* avg_dice of each validation() call that returned
    vstep,              \* validation batches already processed
    samples,            \* validation() local: the collected samples
    worst_samples,      \* validation() result
    ret,                \* train() return value; -1 while not returned
    error,              \* the exception that ended the run, "none" otherwise
    net,                \* the constructed UNet3Plus (layer tables of __init__)
    x,                  \* shape of the input batch of forward()
    enc_out,            \* shapes of the encoder's feature maps, finest first
    dec_map_list,       \* shapes of the decoder stages built so far
    cat_out,            \* the list `out` of the last FullScaleSkipConnect.forward
    pred,               \* the prediction bundle: key -> shape
    have_obj,           \* forward() local: the presence gate
    aux_ii,             \* forward() loop variable ii of the auxiliary loop
    gate                \* the last product de * have_obj; <<>> before the first

vars == <<entry, pc, num_epochs, val_interval, hook, nTrain, valBatchSize,
          valBatches, num_worst_samples, epoch, step, training, best_dice,
          best_model_path, files, metrics, logged, hookCalls, optSteps,
          valCalls, valDices, vstep, samples, worst_samples, ret, error,
          net, x, enc_out, dec_map_list, cat_out, pred, have_obj, aux_ii, gate>>

argVars == <<entry, num_epochs, val_interval, hook, nTrain, valBatchSize,
             valBatches, num_worst_samples>>

ckptVars == <<best_dice, best_model_path, files>>

trainVars == <<epoch, step, metrics, logged, hookCalls, optSteps, ret>>

valVars == <<vstep, samples, worst_samples>>

fwdVars == <<net, x, enc_out, dec_map_list, cat_out, pred, have_obj, aux_ii, gate>>

loopVars == <<argVars, ckptVars, trainVars, valVars, training, valCalls, valDices>>

(* ---- helpers ---- *)
Min(a, b) == IF a < b THEN a ELSE b

RECURSIVE SumDice(_)
SumDice(s) == IF s = <<>> THEN 0 ELSE s[1].dice + SumDice(Tail(s))

(* The per-sample mean Dice values a validation batch can produce. *)
SampleDices == {0, 100000}

(* A data source: every batch holds batch_size samples, the last one      *)
(* possibly fewer (drop_last = False).                                     *)
Loader(nb, bs, last) == [i \in 1..nb |-> IF i = nb THEN last ELSE bs]

(* ---- train(): lines 26-152 ---- *)

(* f"{x:.4f}" of a Dice value: the nearest multiple of 1e-4, ties to even. *)
Fmt4(d) ==
    LET q == d \div 10
        r == d % 10
    IN  IF r < 5 THEN q
        ELSE IF r > 5 THEN q + 1
        ELSE IF q % 2 = 0 THEN q ELSE q + 1

(* os.path.join(save_dir, f"best_dice_{best_dice:.4f}.pt") *)
CheckpointPath(d) == <<"best_dice", Fmt4(d)>>

(* if best_dice < dice: best_dice = dice *)
UpdateBest(best, dice) == IF best < dice THEN dice ELSE best

(* best_dice after the validation results ds have been processed in order *)
RECURSIVE BestOver(_, _)
BestOver(best, ds) ==
    IF ds = <<>> THEN best ELSE BestOver(UpdateBest(best, ds[1]), Tail(ds))

(* The keys metrics.update adds in a validation epoch (lines 109-119). *)
ValMetricKeys ==
    {"learning_rate", "total/val_loss", "total/val_dice",
     "val_loss_per_class", "val_dice_per_class"}

(* The metrics dict built at lines 81-86. *)
TrainMetrics(e) ==
    [keys |-> {"total/train_loss", "train_loss_per_class", "epoch"}, epoch |-> e]

(* A faulty variant of CallHook: the test `hook is not None` is missing. *)
CallingHookAlways(h, calls, rec) == Append(calls, rec)

(* if hook is not None: hook.after_train_epoch(DummyRunner(model, log_buffer)) *)

CallHook(h, calls, rec) == IF h # "None" THEN Append(calls, rec) ELSE calls

(* A faulty variant of EpochBegin: model.train() is missing. *)
EpochBeginKeepsMode ==
    /\ pc = "epoch_head"
    /\ epoch < num_epochs
    /\ step' = 0
    /\ pc' = "train_batch"
    /\ UNCHANGED <<fwdVars, argVars, ckptVars, valVars, training, epoch, metrics, logged,
                   hookCalls, optSteps, ret, valCalls, valDices, error>>

(* for epoch in range(num_epochs): ... model.train() *)
EpochBegin ==
    /\ pc = "epoch_head"
    /\ epoch < num_epochs
    /\ training' = TRUE
    /\ step' = 0
    /\ pc' = "train_batch"
    /\ UNCHANGED <<fwdVars, argVars, ckptVars, valVars, epoch, metrics, logged,
                   hookCalls, optSteps, ret, valCalls, valDices, error>>

(* One iteration of the batch loop: forward, loss, zero_grad, backward,   *)
(* optimizer.step().                                                       *)
TrainBatch ==
    /\ pc = "train_batch"
    /\ step < nTrain
    /\ optSteps' = optSteps + 1
    /\ step' = step + 1
    /\ UNCHANGED <<fwdVars, argVars, ckptVars, valVars, pc, training, epoch, metrics,
                   logged, hookCalls, ret, valCalls, valDices, error>>

(* After the batch loop: epoch averages, the metrics dict, the optional    *)
(* hook call, and the test (epoch + 1) % val_interval == 0.                *)
AfterTrainEpoch ==
    /\ pc = "train_batch"
    /\ step = nTrain
    /\ metrics' = TrainMetrics(epoch + 1)
    /\ hookCalls' = CallHook(hook, hookCalls,
                             [epoch |-> epoch + 1,
                              val_dice |-> best_dice,
                              optSteps |-> optSteps,
                              valCalls |-> Len(valCalls),
                              valDices |-> Len(valDices)])
    /\ pc' = IF (epoch + 1) % val_interval = 0 THEN "val_start" ELSE "log"
    /\ UNCHANGED <<fwdVars, argVars, ckptVars, valVars, training, epoch, step, logged,
                   optSteps, ret, valCalls, valDices, error>>

(* scheduler.step(): the name scheduler is bound neither in train() nor in *)
(* the module, so the lookup raises NameError.  The rest of the validation *)
(* branch (lines 108-143) and wandb.log(metrics) of this epoch are never   *)
(* reached.                                                                *)
SchedulerStep ==
    /\ pc = "sched"
    /\ error' = "NameError"
    /\ pc' = "raised"
    /\ UNCHANGED <<fwdVars, argVars, ckptVars, valVars, trainVars, training, valCalls,
                   valDices>>

(* wandb.log(metrics), end of the loop body. *)
LogMetrics ==
    /\ pc = "log"
    /\ logged' = Append(logged, metrics)
    /\ epoch' = epoch + 1
    /\ pc' = "epoch_head"
    /\ UNCHANGED <<fwdVars, argVars, ckptVars, valVars, training, step, metrics,
                   hookCalls, optSteps, ret, valCalls, valDices, error>>

(* return best_dice *)
Return ==
    /\ pc = "epoch_head"
    /\ epoch = num_epochs
    /\ ret' = best_dice
    /\ pc' = "done"
    /\ UNCHANGED <<fwdVars, argVars, ckptVars, valVars, training, epoch, step, metrics,
                   logged, hookCalls, optSteps, valCalls, valDices, error>>

(* ---- validation(): lines 155-220 ---- *)

(* A faulty variant of InsertSorted: an unstable sort, which puts a sample *)
(* in front of the earlier samples of equal key.                           *)
InsertBeforeEqual(t, smp) ==
    LET k == Cardinality({i \in 1..Len(t) : t[i].dice < smp.dice})
    IN  SubSeq(t, 1, k) \o <<smp>> \o SubSeq(t, k + 1, Len(t))

(* sorted(samples, key=lambda x: x[3]): a stable sort.  Insert the sample *)
(* behind every element whose key is not greater.                          *)
InsertSorted(t, smp) ==
    LET k == Cardinality({i \in 1..Len(t) : t[i].dice <= smp.dice})
    IN  SubSeq(t, 1, k) \o <<smp>> \o SubSeq(t, k + 1, Len(t))

RECURSIVE Sorted(_)
Sorted(s) ==
    IF s = <<>> THEN <<>>
    ELSE InsertSorted(Sorted(SubSeq(s, 1, Len(s) - 1)), s[Len(s)])

(* s[:n] for n >= 0 *)
SliceTo(s, n) == SubSeq(s, 1, Min(n, Len(s)))

(* torch.mean over all per-sample Dice values *)
MeanDice(s) == SumDice(s) \div Len(s)

(* print, model.eval(), the empty accumulators *)
ValStart ==
    /\ pc = "val_start"
    /\ training' = FALSE
    /\ samples' = <<>>
    /\ vstep' = 0
    /\ valCalls' = Append(valCalls, epoch + 1)
    /\ pc' = "val_batch"
    /\ UNCHANGED <<fwdVars, argVars, ckptVars, trainVars, worst_samples, valDices, error>>

(* One validation batch: every sample of the batch is appended with its   *)
(* mean Dice, in batch order.                                              *)
ValBatch ==
    /\ pc = "val_batch"
    /\ vstep < Len(valBatches)
    /\ \E ds \in [1..valBatches[vstep + 1] -> SampleDices] :
          samples' = samples \o
              [i \in 1..valBatches[vstep + 1] |->
                  [id |-> Len(samples) + i, dice |-> ds[i]]]
    /\ vstep' = vstep + 1
    /\ UNCHANGED <<fwdVars, argVars, ckptVars, trainVars, pc, training, worst_samples,
                   valCalls, valDices, error>>

(* After the batch loop.  torch.cat(dices, 0) raises on an empty list.     *)
ValFinish ==
    /\ pc = "val_batch"
    /\ vstep = Len(valBatches)
    /\ IF samples = <<>>
       THEN /\ error' = "RuntimeError: torch.cat"
            /\ pc' = "raised"
            /\ UNCHANGED <<worst_samples, valDices>>
       ELSE /\ worst_samples' = SliceTo(Sorted(samples), num_worst_samples)
            /\ valDices' = Append(valDices, MeanDice(samples))
            /\ pc' = IF entry = "train" THEN "sched" ELSE "val_returned"
            /\ error' = error
    /\ UNCHANGED <<fwdVars, argVars, ckptVars, trainVars, training, valCalls, vstep,
                   samples>>

(* ---- UNet3Plus: model/u3_effnet/unet3plus.py ---- *)

Max(a, b) == IF a > b THEN a ELSE b

RECURSIVE Pow2(_)
Pow2(k) == IF k <= 0 THEN 1 ELSE 2 * Pow2(k - 1)

CeilDiv(a, b) == (a + b - 1) \div b

Reverse(s) == [i \in 1..Len(s) |-> s[Len(s) + 1 - i]]

RECURSIVE SumCh(_)
SumCh(ts) == IF ts = <<>> THEN 0 ELSE ts[1][2] + SumCh(Tail(ts))

(* The value of an operation that raised instead of returning a tensor. *)
Bad == <<-1>>

(* nn.Conv2d(in_ch, out_ch, k, padding = k // 2): the channel count of the *)
(* input must be in_ch; the spatial size is kept.                          *)
Conv2d(in_ch, out_ch, t) ==
    IF t = Bad \/ t[2] # in_ch THEN Bad ELSE <<t[1], out_ch, t[3], t[4]>>

(* u3pblock(in_ch, out_ch, num_block = 1): conv, batch norm, ReLU. *)
u3pblock(in_ch, out_ch, t) == Conv2d(in_ch, out_ch, t)

(* nn.MaxPool2d(scale, scale, ceil_mode = True) *)
MaxPool2d(scale, t) ==
    IF t = Bad THEN Bad
    ELSE <<t[1], t[2], CeilDiv(t[3], scale), CeilDiv(t[4], scale)>>

(* nn.Upsample(scale_factor = scale, mode = 'bilinear') *)
Upsample(scale, t) ==
    IF t = Bad THEN Bad ELSE <<t[1], t[2], t[3] * scale, t[4] * scale>>

(* torch.cat(out, 1): every tensor must agree in all but the channel axis. *)
Cat(ts) ==
    IF \/ ts = <<>>
       \/ \E i \in 1..Len(ts) : ts[i] = Bad
    THEN Bad
    ELSE IF \E i \in 1..Len(ts) :
               \/ ts[i][1] # ts[1][1]
               \/ ts[i][3] # ts[1][3]
               \/ ts[i][4] # ts[1][4]
         THEN Bad
         ELSE <<ts[1][1], SumCh(ts), ts[1][3], ts[1][4]>>

en2dec_layer(in_ch, out_ch, scale) ==
    [in_ch |-> in_ch, out_ch |-> out_ch, scale |-> scale]

ApplyEn2Dec(layer, t) ==
    u3pblock(layer.in_ch, layer.out_ch,
             IF layer.scale = 1 THEN t ELSE MaxPool2d(layer.scale, t))

dec2dec_layer(in_ch, out_ch, scale, fast_up) ==
    [in_ch |-> in_ch, out_ch |-> out_ch, scale |-> scale, fast_up |-> fast_up]

ApplyDec2Dec(layer, t) ==
    LET up(u) == IF layer.scale # 1 THEN Upsample(layer.scale, u) ELSE u
    IN  IF layer.fast_up
        THEN up(u3pblock(layer.in_ch, layer.out_ch, t))
        ELSE u3pblock(layer.in_ch, layer.out_ch, up(t))

(* A faulty variant of DecScales: one scale, hence one dec2dec layer, too  *)
(* few.                                                                    *)
DecScalesOneShort(num_dec) == [j \in 1..(num_dec - 1) |-> Pow2(num_dec - j + 1)]

(* dec_scales of FullScaleSkipConnect.__init__: 2 ** (ii + 1) for ii in    *)
(* reversed(range(num_dec)).                                               *)
DecScales(num_dec) == [j \in 1..num_dec |-> Pow2(num_dec - j + 1)]

(* FullScaleSkipConnect.__init__ *)
FullScaleSkipConnect(en_channels, en_scales, num_dec, skip_ch, bottom_dec_ch, fast_up) ==
    LET concat_ch == skip_ch * (Len(en_channels) + num_dec)
        dec_scales == DecScales(num_dec)
    IN  [kind |-> "FullScaleSkipConnect",
         concat_ch |-> concat_ch,
         en2dec_layers |->
            [i \in 1..Min(Len(en_channels), Len(en_scales)) |->
                en2dec_layer(en_channels[i], skip_ch, en_scales[i])],
         dec2dec_layers |->
            [j \in 1..Len(dec_scales) |->
                dec2dec_layer(IF j = 1 THEN bottom_dec_ch ELSE concat_ch,
                              skip_ch, dec_scales[j], fast_up)]]

(* The list `out` of FullScaleSkipConnect.forward: zip() stops at the      *)
(* shorter of its two arguments.                                           *)
SkipOut(block, en_maps, dec_maps) ==
    [i \in 1..Min(Len(en_maps), Len(block.en2dec_layers)) |->
        ApplyEn2Dec(block.en2dec_layers[i], en_maps[i])]
    \o
    [j \in 1..Min(Len(dec_maps), Len(block.dec2dec_layers)) |->
        ApplyDec2Dec(block.dec2dec_layers[j], dec_maps[j])]

(* self.fuse_layer(self.droupout(torch.cat(out, 1))) *)
Fuse(block, out) == u3pblock(block.concat_ch, block.concat_ch, Cat(out))

(* U3PEfficientNetDecoder.__init__: decoder1 is nn.Identity(), decoder     *)
(* ii+1 a FullScaleSkipConnect over en_channels[ii:] (deepest first).      *)
U3PEfficientNetDecoder(en_channels, skip_ch, fast_up) ==
    LET rev == Reverse(en_channels)
        num_en_ch == Len(rev)
    IN  [k \in 1..num_en_ch |->
            IF k = 1 THEN [kind |-> "Identity"]
            ELSE FullScaleSkipConnect(
                    SubSeq(rev, k, num_en_ch),
                    [m \in 1..(num_en_ch - k + 1) |-> Pow2(m - 1)],
                    k - 1, skip_ch, rev[1], fast_up)]

(* A faulty variant of LayerIndices: off by one. *)
LayerIndicesShifted(num_decoders, aux_losses) ==
    (num_decoders - aux_losses)..(num_decoders - 1)

(* layer_indices = np.arange(num_decoders - aux_losses - 1, num_decoders - 1) *)
LayerIndices(num_decoders, aux_losses) ==
    (num_decoders - aux_losses - 1)..(num_decoders - 2)

(* UNet3Plus.__init__ *)
UNet3Plus(num_classes, skip_ch, aux_losses, channels, transpose_final, use_cgm, fast_up) ==
    LET num_decoders == Len(channels) - 1
        decoder_ch == skip_ch * num_decoders
    IN  [args |-> [num_classes |-> num_classes, skip_ch |-> skip_ch,
                   aux_losses |-> aux_losses, use_cgm |-> use_cgm],
         channels |-> channels,
         decoder |-> U3PEfficientNetDecoder(Tail(channels), skip_ch, fast_up),
         cls |-> IF use_cgm
                 THEN [none |-> FALSE, in_ch |-> channels[Len(channels)]]
                 ELSE [none |-> TRUE, in_ch |-> 0],
         head |-> [in_ch |-> decoder_ch, out_ch |-> num_classes,
                   stride |-> IF transpose_final THEN 2 ELSE 1],
         aux_head |->
            IF aux_losses > 0
            THEN [none |-> FALSE,
                  heads |-> [ii \in LayerIndices(num_decoders, aux_losses) |->
                               [in_ch |-> IF ii # 0 THEN decoder_ch
                                          ELSE channels[Len(channels)],
                                out_ch |-> num_classes]]]
            ELSE [none |-> TRUE, heads |-> [ii \in {} |-> 0]]]

(* The encoder's feature maps, finest first: the backbone halves the       *)
(* resolution at every stage (stride-2 convolutions with 'same' padding),  *)
(* and stage k has channels[k] channels.                                   *)
EncoderForward(xs, channels) ==
    [k \in 1..(Len(channels) - 1) |->
        <<xs[1], channels[k + 1], CeilDiv(xs[3], Pow2(k)), CeilDiv(xs[4], Pow2(k))>>]

(* self.head: Conv2d(decoder_ch, num_classes, 3, padding = 1), or          *)
(* ConvTranspose2d(..., kernel_size = 4, stride = 2, padding = 1).         *)
ApplyHead(head, t) ==
    IF t = Bad \/ t[2] # head.in_ch THEN Bad
    ELSE <<t[1], head.out_ch, t[3] * head.stride, t[4] * head.stride>>

(* UNet3Plus.resize *)
Resize(t, h, w) ==
    IF t = Bad THEN Bad
    ELSE IF t[3] # h \/ t[4] # w THEN <<t[1], t[2], h, w>> ELSE t

(* Broadcasting of two shapes: aligned at the LAST axis; two sizes are     *)
(* compatible when they are equal or one of them is 1.                     *)
Dim(s, i, n) == IF i <= n - Len(s) THEN 1 ELSE s[i - (n - Len(s))]

BroadcastShapes(a, b) ==
    LET n == Max(Len(a), Len(b))
    IN  IF \E i \in 1..n : /\ Dim(a, i, n) # Dim(b, i, n)
                           /\ Dim(a, i, n) # 1
                           /\ Dim(b, i, n) # 1
        THEN Bad
        ELSE [i \in 1..n |-> Max(Dim(a, i, n), Dim(b, i, n))]

(* The element of have_obj that multiplies element idx of de * have_obj:   *)
(* have_obj is the int 1 or a tensor of shape (B,), whose only axis is     *)
(* aligned with the last axis of de.                                       *)
HaveObjAt(ho, idx) ==
    IF ho.shape = <<>> THEN ho.val[1]
    ELSE ho.val[IF ho.shape[1] = 1 THEN 1 ELSE idx[4]]

AuxKey(ii) == "aux" \o ToString(ii)

(* self.encoder(x) *)
Encode ==
    /\ pc = "fwd_start"
    /\ enc_out' = EncoderForward(x, net.channels)
    /\ dec_map_list' = <<>>
    /\ pc' = "decode"
    /\ UNCHANGED <<loopVars, net, x, cat_out, pred, have_obj, aux_ii, gate, error>>

(* One iteration of the loop of U3PEfficientNetDecoder.forward. *)
DecodeStage ==
    /\ pc = "decode"
    /\ Len(dec_map_list) < Len(net.decoder)
    /\ LET ii == Len(dec_map_list)
           enc_map_list == Reverse(enc_out)
           layer == net.decoder[ii + 1]
           out == IF ii = 0 THEN <<>>
                  ELSE SkipOut(layer,
                               SubSeq(enc_map_list, ii + 1, Len(enc_map_list)),
                               dec_map_list)
           m == IF ii = 0 THEN enc_map_list[1] ELSE Fuse(layer, out)
       IN  /\ cat_out' = out
           /\ IF m = Bad
              THEN /\ error' = IF Cat(out) = Bad THEN "RuntimeError: torch.cat"
                                                ELSE "RuntimeError: channels"
                   /\ pc' = "raised"
                   /\ UNCHANGED dec_map_list
              ELSE /\ dec_map_list' = Append(dec_map_list, m)
                   /\ UNCHANGED <<pc, error>>
    /\ UNCHANGED <<loopVars, net, x, enc_out, pred, have_obj, aux_ii, gate>>

(* have_obj = 1; pred = {'out': self.resize(self.head(de_out[-1]), h, w)} *)
HeadOut ==
    /\ pc = "decode"
    /\ Len(dec_map_list) = Len(net.decoder)
    /\ LET out == Resize(ApplyHead(net.head, dec_map_list[Len(dec_map_list)]),
                         x[3], x[4])
       IN  IF out = Bad
           THEN /\ error' = "RuntimeError: channels"
                /\ pc' = "raised"
                /\ UNCHANGED <<pred, have_obj, aux_ii>>
           ELSE /\ pred' = ("out" :> out)
                /\ have_obj' = [shape |-> <<>>, val |-> <<1>>]
                /\ aux_ii' = 0
                /\ pc' = "aux"
                /\ UNCHANGED error
    /\ UNCHANGED <<loopVars, net, x, enc_out, dec_map_list, cat_out, gate>>

(* One iteration of `for ii, de in enumerate(de_out[:-1])`. *)
AuxStage ==
    /\ pc = "aux"
    /\ ~net.aux_head.none
    /\ aux_ii < Len(dec_map_list) - 1
    /\ \E am \in [1..x[1] -> {0, 1}] :
        LET de == dec_map_list[aux_ii + 1]
            withCls == aux_ii = 0 /\ ~net.cls.none
            clsOut == Conv2d(net.cls.in_ch, 2, de)
            ho == IF withCls THEN [shape |-> <<x[1]>>, val |-> am] ELSE have_obj
            p1 == IF withCls THEN pred @@ ("cls" :> <<x[1], 2>>) ELSE pred
            hasHead == aux_ii \in DOMAIN net.aux_head.heads
            head == net.aux_head.heads[aux_ii]
            g == BroadcastShapes(de, ho.shape)
            a == Resize(Conv2d(head.in_ch, head.out_ch, g), x[3], x[4])
        IN  IF (withCls /\ clsOut = Bad) \/ (hasHead /\ a = Bad)
            THEN /\ error' = IF hasHead /\ g = Bad THEN "RuntimeError: broadcast"
                                                  ELSE "RuntimeError: channels"
                 /\ pc' = "raised"
                 /\ UNCHANGED <<pred, have_obj, aux_ii, gate>>
            ELSE /\ have_obj' = ho
                 /\ pred' = IF hasHead THEN p1 @@ (AuxKey(aux_ii) :> a) ELSE p1
                 /\ gate' = IF hasHead
                            THEN [stage |-> aux_ii, de |-> de, out |-> g,
                                  factor |-> [b \in 1..g[1], w \in 1..g[4] |->
                                                 HaveObjAt(ho, <<b, 1, 1, w>>)]]
                            ELSE gate
                 /\ aux_ii' = aux_ii + 1
                 /\ UNCHANGED <<pc, error>>
    /\ UNCHANGED <<loopVars, net, x, enc_out, dec_map_list, cat_out>>

(* return pred *)
ForwardReturn ==
    /\ pc = "aux"
    /\ net.aux_head.none \/ aux_ii = Len(dec_map_list) - 1
    /\ pc' = "fwd_done"
    /\ UNCHANGED <<loopVars, fwdVars, error>>

(* ---- the programs ---- *)
IdleLoop ==
    /\ training \in BOOLEAN
    /\ epoch = 0 /\ step = 0
    /\ best_dice = 0 /\ best_model_path = <<>> /\ files = {}
    /\ metrics = [keys |-> {}, epoch |-> 0]
    /\ logged = <<>> /\ hookCalls = <<>> /\ optSteps = 0
    /\ valCalls = <<>> /\ valDices = <<>>
    /\ vstep = 0 /\ samples = <<>> /\ worst_samples = <<>>
    /\ ret = -1 /\ error = "none"

IdleForward ==
    /\ net = <<>> /\ x = <<>> /\ enc_out = <<>> /\ dec_map_list = <<>>
    /\ cat_out = <<>> /\ pred = <<>> /\ have_obj = <<>> /\ aux_ii = 0
    /\ gate = <<>>

InitCommon ==
    /\ \E nb \in 0..MaxValBatches, bs \in 1..MaxBatchSize :
          \E last \in 1..bs :
             /\ valBatchSize = bs
             /\ valBatches = Loader(nb, bs, last)
    /\ IdleLoop
    /\ IdleForward

(* A program that calls train(...). *)
InitTrain ==
    /\ entry = "train"
    /\ pc = "epoch_head"
    /\ num_epochs \in 0..MaxEpochs
    /\ val_interval \in 1..MaxInterval
    /\ hook \in {"None", "hook"}
    /\ nTrain \in 1..MaxTrainBatches
    /\ num_worst_samples = DefaultNumWorst
    /\ InitCommon

NextTrain ==
    \/ EpochBegin
    \/ TrainBatch
    \/ AfterTrainEpoch
    \/ ValStart
    \/ ValBatch
    \/ ValFinish
    \/ SchedulerStep
    \/ LogMetrics
    \/ Return

SpecTrain == InitTrain /\ [][NextTrain]_vars

(* A program that calls validation(epoch, model, data_loader, criterion,   *)
(* num_worst_samples = n) directly.                                        *)
InitValidation ==
    /\ entry = "validation"
    /\ pc = "val_start"
    /\ num_epochs = 0
    /\ val_interval = 1
    /\ hook = "None"
    /\ nTrain = 1
    /\ num_worst_samples \in 0..MaxWorst
    /\ InitCommon

NextValidation ==
    \/ ValStart
    \/ ValBatch
    \/ ValFinish

SpecValidation == InitValidation /\ [][NextValidation]_vars

(* The encoder's channel schedule: a prefix of the default                *)
(* [3, 64, 128, 256, 512, 1024].                                           *)
Channels(n) == [i \in 1..(n + 1) |-> IF i = 1 THEN 3 ELSE Pow2(i + 4)]

SkipChs == {64}

(* A program that builds a UNet3Plus and calls forward(x) once. *)
InitForward ==
    /\ entry = "forward"
    /\ pc = "fwd_start"
    /\ num_epochs = 0 /\ val_interval = 1 /\ hook = "None" /\ nTrain = 1
    /\ num_worst_samples = DefaultNumWorst
    /\ valBatchSize = 1 /\ valBatches = <<>>
    /\ IdleLoop
    /\ training = TRUE
    /\ \E n \in 2..MaxStages, num_classes \in 1..MaxClasses, skip_ch \in SkipChs,
          aux_losses \in 0..MaxAux, transpose_final \in BOOLEAN,
          use_cgm \in BOOLEAN, fast_up \in BOOLEAN :
          net = UNet3Plus(num_classes, skip_ch, aux_losses, Channels(n),
                          transpose_final, use_cgm, fast_up)
    /\ \E B \in 1..MaxBatch, H \in 1..MaxSize, W \in 1..MaxSize :
          x = <<B, 3, H, W>>
    /\ enc_out = <<>> /\ dec_map_list = <<>> /\ cat_out = <<>>
    /\ pred = <<>> /\ have_obj = <<>> /\ aux_ii = 0 /\ gate = <<>>

NextForward ==
    \/ Encode
    \/ DecodeStage
    \/ HeadOut
    \/ AuxStage
    \/ ForwardReturn

SpecForward == InitForward /\ [][NextForward]_vars

(* ---- properties ---- *)

RECURSIVE SumSeq(_)
SumSeq(s) == IF s = <<>> THEN 0 ELSE s[1] + SumSeq(Tail(s))

(* Number of epochs of train() whose training phase (batches, metrics,    *)
(* hook) is over.                                                          *)
EpochsTrained ==
    IF pc \in {"epoch_head", "train_batch", "done"} THEN epoch ELSE epoch + 1

C2_ReturnsBestDice ==
    entry = "train"
    => /\ pc = "done" => ret = BestOver(0, valDices)
       /\ valDices # <<>> => pc # "raised"

(* C3 as stated: the worst-sample list has length                          *)
(* min(num_worst_samples, batch_count x batch_size), ascending by mean     *)
(* Dice, ties in encounter order.                                          *)
C3_WorstSamplesByBatchSize ==
    pc = "val_returned"
    => /\ Len(worst_samples) = Min(num_worst_samples, Len(valBatches) * valBatchSize)
       /\ \A i, j \in 1..Len(worst_samples) :
             i < j => \/ worst_samples[i].dice < worst_samples[j].dice
                      \/ /\ worst_samples[i].dice = worst_samples[j].dice
                         /\ worst_samples[i].id < worst_samples[j].id

(* C3 amended: when validation() returns, the worst-sample list has length *)
(* min(num_worst_samples, number of samples of all batches), is ascending  *)
(* by mean Dice, and samples of equal mean Dice are in encounter order.    *)
C3_WorstSamples ==
    pc = "val_returned"
    => /\ Len(valBatches) >= 1
       /\ Len(worst_samples) = Min(num_worst_samples, SumSeq(valBatches))
       /\ \A i, j \in 1..Len(worst_samples) :
             i < j => \/ worst_samples[i].dice < worst_samples[j].dice
                      \/ /\ worst_samples[i].dice = worst_samples[j].dice
                         /\ worst_samples[i].id < worst_samples[j].id

(* A returned list cut by num_worst_samples from a source whose last batch *)
(* is smaller, holding two samples of equal Dice from different batches.   *)
C3_Witness ==
    /\ pc = "val_returned"
    /\ Len(valBatches) = 2
    /\ valBatches[2] < valBatchSize
    /\ Len(worst_samples) = num_worst_samples
    /\ num_worst_samples < Len(samples)
    /\ \E i, j \in 1..Len(worst_samples) :
          /\ i < j
          /\ worst_samples[i].dice = worst_samples[j].dice
          /\ worst_samples[i].id <= valBatchSize
          /\ worst_samples[j].id > valBatchSize
    /\ \E i \in 1..Len(samples) : samples[i].dice > samples[Len(samples)].dice

(* C4: forward() never raises a shape error, and the `out` prediction it   *)
(* returns has the spatial size (H, W) of the input.                       *)
C4_OutHasInputSize ==
    entry = "forward"
    => /\ error = "none"
       /\ pc = "fwd_done" => /\ pred["out"][3] = x[3]
                             /\ pred["out"][4] = x[4]

(* The keys of a bundle other than out and cls. *)
AuxKeysOf(p) == DOMAIN p \ {"out", "cls"}

(* C5 as stated: the returned bundle holds out, cls only with a presence   *)
(* head, and one aux{i} for each of the k = aux_losses heads of stage      *)
(* indices D-1-k .. D-2, every segmentation map of size (H, W).            *)
C5_BundleKeysAllHeads ==
    (entry = "forward" /\ pc = "fwd_done")
    => LET D == Len(net.decoder)
           k == net.args.aux_losses
       IN  /\ "out" \in DOMAIN pred
           /\ "cls" \in DOMAIN pred => net.args.use_cgm
           /\ AuxKeysOf(pred) = {AuxKey(i) : i \in (D - 1 - k)..(D - 2)}
           /\ Cardinality(AuxKeysOf(pred)) = k
           /\ \A key \in DOMAIN pred \ {"cls"} :
                 pred[key][3] = x[3] /\ pred[key][4] = x[4]

(* C5 amended: the returned bundle holds out, cls only with a presence     *)
(* head, and one aux{i} for each constructed head whose stage index is not *)
(* negative, i in max(0, D-1-k) .. D-2 (all k heads when k <= D-1), every  *)
(* segmentation map of size (H, W).                                        *)
C5_BundleKeys ==
    (entry = "forward" /\ pc = "fwd_done")
    => LET D == Len(net.decoder)
           k == net.args.aux_losses
       IN  /\ "out" \in DOMAIN pred
           /\ "cls" \in DOMAIN pred => net.args.use_cgm
           /\ AuxKeysOf(pred) = {AuxKey(i) : i \in Max(0, D - 1 - k)..(D - 2)}
           /\ k <= D - 1 => Cardinality(AuxKeysOf(pred)) = k
           /\ \A key \in DOMAIN pred \ {"cls"} :
                 pred[key][3] = x[3] /\ pred[key][4] = x[4]

(* The scenario of the specification: 3 decoder stages, 2 auxiliary heads, *)
(* no presence head.                                                       *)
C5_Witness ==
    /\ entry = "forward" /\ pc = "fwd_done"
    /\ Len(net.decoder) = 3
    /\ net.args.aux_losses = 2
    /\ ~net.args.use_cgm
    /\ DOMAIN pred = {"out", "aux0", "aux1"}

(* C6: no epoch of train() ends in the NameError of the scheduler step;    *)
(* one metrics record has been emitted per finished epoch, the record of   *)
(* an epoch e with e mod val_interval = 0 holding the validation metrics   *)
(* and the learning rate; and validation ran in exactly those epochs.      *)
C6_EpochProtocol ==
    entry = "train"
    => /\ error # "NameError"
       /\ pc \in {"epoch_head", "done"}
          => /\ Len(logged) = epoch
             /\ \A i \in 1..Len(logged) :
                   /\ logged[i].epoch = i
                   /\ i % val_interval = 0 => ValMetricKeys \subseteq logged[i].keys
       /\ \A i \in 1..Len(valCalls) : valCalls[i] = i * val_interval
       /\ Len(valCalls) = (IF pc \in {"epoch_head", "train_batch", "done"}
                           THEN epoch ELSE epoch + 1) \div val_interval
                          - (IF pc = "val_start" THEN 1 ELSE 0)

C8_PerSampleGate ==
    entry = "forward"
    => /\ error # "RuntimeError: broadcast"
       /\ gate # <<>>
          => /\ gate.out = gate.de
             /\ \A b \in 1..gate.out[1], w \in 1..gate.out[4] :
                   gate.factor[b, w] =
                      IF have_obj.shape = <<>> THEN 1 ELSE have_obj.val[b]

(* C9: every fusion block has one en2dec layer per encoder map it is given *)
(* and one dec2dec layer per earlier decoder stage, so that n maps are     *)
(* concatenated and the stage has skip_ch * n channels, which is the input *)
(* channel count of the dec2dec layers of decoder inputs j >= 1 (input 0:  *)
(* the deepest encoder channel count) and of the final head.               *)
C9_FusionChannels ==
    entry = "forward"
    => LET n == Len(net.decoder)
           full == net.args.skip_ch * n
       IN  /\ \A k \in 2..n :
                 /\ Len(net.decoder[k].en2dec_layers) = n - k + 1
                 /\ Len(net.decoder[k].dec2dec_layers) = k - 1
                 /\ net.decoder[k].concat_ch = full
                 /\ \A j \in 1..Len(net.decoder[k].dec2dec_layers) :
                       net.decoder[k].dec2dec_layers[j].in_ch =
                          IF j = 1 THEN net.channels[Len(net.channels)] ELSE full
           /\ net.head.in_ch = full
           /\ cat_out # <<>> => Len(cat_out) = n
           /\ \A i \in 1..Len(dec_map_list) :
                 dec_map_list[i][2] =
                    IF i = 1 THEN net.channels[Len(net.channels)] ELSE full

(* Every stage of a three-stage decoder has been fused. *)
C9_Witness ==
    /\ entry = "forward"
    /\ pc = "aux"
    /\ Len(net.decoder) = 3
    /\ Len(dec_map_list) = 3
    /\ Len(cat_out) = 3

(* C10: every training batch runs with the model in training mode, every   *)
(* validation batch with the model in evaluation mode, and optimizer.step  *)
(* is only called by a training batch.                                     *)
C10_ModesAndUpdates ==
    [][entry = "train"
       => /\ (pc = "train_batch" /\ step' = step + 1) => training
          /\ (pc = "val_batch" /\ vstep' = vstep + 1) => ~training
          /\ optSteps' # optSteps
             => /\ pc = "train_batch"
                /\ step' = step + 1
                /\ optSteps' = optSteps + 1]_vars

(* A validation batch has run in evaluation mode after the training        *)
(* batches of two epochs.                                                  *)
C10_Witness ==
    /\ entry = "train"
    /\ pc = "val_batch"
    /\ vstep >= 1
    /\ ~training
    /\ epoch = 1
    /\ optSteps = 2 * nTrain
    /\ nTrain = 2

====
